---- MODULE Spec2Model ----
(***************************************************************************)
(* Flash-sale post generation pipeline (src/main.py): query contract       *)
(* validation, row normalisation, tracking-link acquisition, rendering,    *)
(* the per-record loop of generate_posts, the webhook dispatch and the     *)
(* result returned by run_flash_sale_generation.                           *)
(*                                                                         *)
(* Representation of Python values:                                        *)
(*   - a nullable value is a sequence of length at most one: <<>> is the   *)
(*     null (None / NaN), <<v>> is the value v;                            *)
(*   - a query text is a sequence of one-character strings, so that        *)
(*     str.lower() and the substring test `in` are computed per character; *)
(*   - a raw numeric warehouse value is held in tenths (20205 is 2020.5),  *)
(*     so that int() truncates.                                            *)
(***************************************************************************)
EXTENDS Integers, Sequences, FiniteSets, TLC

\* ------------------------------------------------------------------ bounds
\* Largest number of rows the warehouse returns in one run.
MaxRows == 2
\* Largest number of text fragments a query under validation is made of.
MaxFrags == 2

\* --------------------------------------------------------- Python helpers
NoneVal == <<>>
Some(v) == <<v>>

\* pandas.NA, the null of a nullable integer column: a value that is neither
\* None nor a string, and whose truth value is ambiguous.
NAVal == <<"<NA>", "<NA>">>

\* bool(x) raises TypeError
TruthRaises(o) == o = NAVal

\* Python truthiness of a nullable string: None and "" are falsy.
Truthy(o) == o # NoneVal /\ o[1] # ""

\* str(x) of a nullable string, as an f-string interpolates it.
PyStr(o) == IF o = NoneVal THEN "None" ELSE o[1]

\* pandas.isna of a raw warehouse value.
IsNa(o) == o = NoneVal

\* int(x) of a number held in tenths: truncation toward zero.
PyInt(tenths) == IF tenths >= 0 THEN tenths \div 10 ELSE -((-tenths) \div 10)

UpperCase == <<"A","B","C","D","E","F","G","H","I","J","K","L","M",
               "N","O","P","Q","R","S","T","U","V","W","X","Y","Z">>
LowerCase == <<"a","b","c","d","e","f","g","h","i","j","k","l","m",
               "n","o","p","q","r","s","t","u","v","w","x","y","z">>

LowerChar(c) ==
    IF \E i \in 1..26 : UpperCase[i] = c
    THEN LowerCase[CHOOSE i \in 1..26 : UpperCase[i] = c]
    ELSE c

\* str.lower()
Lower(s) == [i \in 1..Len(s) |-> LowerChar(s[i])]

\* needle in hay, for Python strings
Contains(needle, hay) ==
    \E i \in 0..(Len(hay) - Len(needle)) :
        SubSeq(hay, i + 1, i + Len(needle)) = needle

\* ------------------------------------------- 4.1 query contract validator
required_columns ==
    << <<"s","f","_","v","e","h","i","c","l","e","_","n","a","m","e">>,
       <<"a","j","a","n","s","_","v","e","h","i","c","l","e","_","i","d">>,
       <<"p","u","b","l","i","s","h","e","d","_","a","t">>,
       <<"c","a","r","_","m","a","k","e">>,
       <<"c","a","r","_","m","o","d","e","l">>,
       <<"c","a","r","_","y","e","a","r">>,
       <<"k","i","l","o","m","e","t","r","a","g","e">> >>

\* Mutant: the query is searched as typed, without lower-casing it.
ColumnMissing_CaseSensitive(column, query) == ~Contains(Lower(column), query)

\* The test of one loop iteration: column.lower() not in query_lower
ColumnMissing(column, query) == ~Contains(Lower(column), Lower(query))

RECURSIVE MissingFrom(_, _)
\* The loop over required_columns from position k on: the missing columns,
\* appended in list order.
MissingFrom(k, query) ==
    IF k > Len(required_columns) THEN <<>>
    ELSE (IF ColumnMissing(required_columns[k], query)
          THEN <<required_columns[k]>> ELSE <<>>)
         \o MissingFrom(k + 1, query)

\* validate_query_columns: (is_valid, missing_columns)
validate_query_columns(query) ==
    LET missing_columns == MissingFrom(1, query)
    IN  [is_valid |-> Len(missing_columns) = 0, missing_columns |-> missing_columns]

\* --------------------------------------------- 4.2 car record normaliser
\* Mutant: an unknown model is not defaulted to the skip marker.
NormalizeRow_ModelKept(row) ==
    [sf_vehicle_name  |-> row.sf_vehicle_name,
     ajans_vehicle_id |-> row.ajans_vehicle_id,
     make       |-> IF ~IsNa(row.car_make) THEN row.car_make[1] ELSE "Unknown",
     model      |-> IF ~IsNa(row.car_model) THEN row.car_model[1] ELSE "",
     year       |-> IF ~IsNa(row.car_year) THEN PyInt(row.car_year[1]) ELSE 0,
     kilometers |-> IF ~IsNa(row.kilometrage) THEN PyInt(row.kilometrage[1]) ELSE 0,
     published_at |-> row.published_at]

\* The car_data dictionary built from one row of the result.  The two
\* identifiers are copied as they came (null included).
NormalizeRow(row) ==
    [sf_vehicle_name  |-> row.sf_vehicle_name,
     ajans_vehicle_id |-> row.ajans_vehicle_id,
     make       |-> IF ~IsNa(row.car_make) THEN row.car_make[1] ELSE "Unknown",
     model      |-> IF ~IsNa(row.car_model) THEN row.car_model[1] ELSE "Unknown",
     year       |-> IF ~IsNa(row.car_year) THEN PyInt(row.car_year[1]) ELSE 0,
     kilometers |-> IF ~IsNa(row.kilometrage) THEN PyInt(row.kilometrage[1]) ELSE 0,
     published_at |-> row.published_at]

\* The loop over result.iterrows()
NormalizeRows(rows) == [i \in 1..Len(rows) |-> NormalizeRow(rows[i])]

\* ------------------------------------------------ 4.3 tracking link client
\* datetime.now().strftime("%Y%m%d"), fixed for the run
CurrentDate == "20250101"

FallbackLink == "elajans.link"

\* The JSON body of the link request.
LinkPayload(vehicle_name, ajans_vehicle_id) ==
    [link_name  |-> <<"flashsale-", CurrentDate, "-", PyStr(vehicle_name)>>,
     final_link |-> <<"sylndr://car-details/", PyStr(ajans_vehicle_id)>>,
     sender_id  |-> "6eb7c941-13b9-4eb3-8402-5310e2bc0f8e",
     domain     |-> "elajans.link",
     deeplink   |-> TRUE]

\* dict.get(key): the value, or None when the key is absent
DictGet(d, key) == IF key \in DOMAIN d THEN d[key] ELSE NoneVal

\* Python's `a or b`
PyOr(a, b) == IF Truthy(a) THEN a ELSE b

\* Mutant: the keys are tried in the order link, tracking_link, url.
FirstLink_LinkFirst(response_data) ==
    PyOr(PyOr(DictGet(response_data, "link"), DictGet(response_data, "tracking_link")),
         DictGet(response_data, "url"))

\* response_data.get('tracking_link') or .get('link') or .get('url')
FirstLink(response_data) ==
    PyOr(PyOr(DictGet(response_data, "tracking_link"), DictGet(response_data, "link")),
         DictGet(response_data, "url"))

\* Mutant: a non-200 answer is not turned into the fallback.
create_tracking_link_NoStatusCheck(outcome) ==
    IF outcome.kind # "response" THEN FallbackLink
    ELSE IF outcome.body.kind # "mapping" THEN FallbackLink
    ELSE IF Truthy(FirstLink(outcome.body.data)) THEN FirstLink(outcome.body.data)[1]
    ELSE FallbackLink

\* The value create_tracking_link returns for an outcome of its one request:
\*   kind "timeout" / "request_exception": requests.post raised;
\*   kind "response": status and body, the body a mapping, text that is no
\*   JSON (response.json() raises) or JSON that is no mapping (.get raises).
create_tracking_link(outcome) ==
    IF outcome.kind # "response" THEN FallbackLink
    ELSE IF outcome.status # 200 THEN FallbackLink
    ELSE IF outcome.body.kind # "mapping" THEN FallbackLink
    ELSE IF Truthy(FirstLink(outcome.body.data)) THEN FirstLink(outcome.body.data)[1]
    ELSE FallbackLink

\* ------------------------------------------------------ 4.4 post renderer
RECURSIVE Groups(_)
\* The thousands groups of a non-negative integer, most significant first
\* (format spec ","): 50000 gives <<50, 0>>.
Groups(n) == IF n < 1000 THEN <<n>> ELSE Append(Groups(n \div 1000), n % 1000)

CommaGrouped(n) == [negative |-> n < 0, groups |-> Groups(IF n < 0 THEN -n ELSE n)]

\* generate_post_content: POST_TEMPLATE filled in, or the one-line fallback
\* when formatting raises (the "," format of a value that is no number).
generate_post_content(car_data, tracking_link) ==
    IF car_data.kilometers \in Int
    THEN [template |-> "POST_TEMPLATE", make |-> car_data.make,
          model |-> car_data.model, year |-> car_data.year,
          kilometers |-> CommaGrouped(car_data.kilometers),
          tracking_link |-> tracking_link]
    ELSE [template |-> "fallback", make |-> car_data.make,
          model |-> car_data.model, year |-> car_data.year,
          tracking_link |-> tracking_link]

\* Mutant: the content is rendered before the link is known, with the
\* fallback link.
PostData_ContentWithFallback(car_data, tracking_link, now) ==
    [car_id |-> car_data.sf_vehicle_name,
     ajans_vehicle_id |-> car_data.ajans_vehicle_id,
     make |-> car_data.make, model |-> car_data.model,
     year |-> car_data.year, kilometers |-> car_data.kilometers,
     tracking_link |-> tracking_link,
     post_content |-> generate_post_content(car_data, FallbackLink),
     generated_at |-> now]

\* The post_data dictionary of one generated post.
PostData(car_data, tracking_link, now) ==
    [car_id |-> car_data.sf_vehicle_name,
     ajans_vehicle_id |-> car_data.ajans_vehicle_id,
     make |-> car_data.make, model |-> car_data.model,
     year |-> car_data.year, kilometers |-> car_data.kilometers,
     tracking_link |-> tracking_link,
     post_content |-> generate_post_content(car_data, tracking_link),
     generated_at |-> now]

\* --------------------------------------------------- 4.6 webhook dispatcher
\* The key f"post_{i + 1}" and the three metadata keys, each as a tuple.
PostKey(n) == <<"post_", n>>

RECURSIVE AddPosts(_, _, _)
\* The loop `for i, post in enumerate(posts)` from index i (0-based) on.
AddPosts(payload, posts, i) ==
    IF i >= Len(posts) THEN payload
    ELSE AddPosts((PostKey(i + 1) :> posts[i + 1]) @@ payload, posts, i + 1)

\* Mutant: the posts are keyed from post_0.
BuildPayload_ZeroBased(posts, now) ==
    LET meta == (<<"total_count">> :> Len(posts)) @@ (<<"generated_at">> :> now)
                @@ (<<"source">> :> "flash_sale_posts_generator")
        keyed == [k \in {PostKey(i - 1) : i \in 1..Len(posts)} |-> posts[k[2] + 1]]
    IN  keyed @@ meta

\* The flat payload dictionary.
BuildPayload(posts, now) ==
    LET meta == (<<"total_count">> :> Len(posts)) @@ (<<"generated_at">> :> now)
                @@ (<<"source">> :> "flash_sale_posts_generator")
    IN  AddPosts(meta, posts, 0)

SuccessStatuses == {200, 201, 202}

\* Mutant: only 200 counts as delivered.
WebhookAccepted_Only200(outcome) == outcome.kind = "response" /\ outcome.status = 200

\* The value returned after the POST: the status test, False when the
\* request raised (timeout, request exception, anything else).
WebhookAccepted(outcome) ==
    outcome.kind = "response" /\ outcome.status \in SuccessStatuses

\* Mutant: a failed POST is sent a second time.
send_posts_to_webhook_Retry(posts, outcome, now) ==
    IF Len(posts) = 0 THEN [ret |-> FALSE, sent |-> <<>>]
    ELSE [ret  |-> WebhookAccepted(outcome),
          sent |-> IF WebhookAccepted(outcome) THEN <<BuildPayload(posts, now)>>
                   ELSE <<BuildPayload(posts, now), BuildPayload(posts, now)>>]

\* send_posts_to_webhook: the returned boolean and the payloads POSTed.
send_posts_to_webhook(posts, outcome, now) ==
    IF Len(posts) = 0 THEN [ret |-> FALSE, sent |-> <<>>]
    ELSE [ret  |-> WebhookAccepted(outcome),
          sent |-> <<BuildPayload(posts, now)>>]

\* ------------------------------------------------ run_flash_sale_generation
\* Mutant: the posts are dropped from the result when delivery failed.
ResultWithPosts_DropOnFailure(the_posts, delivered) ==
    [success |-> TRUE, posts |-> IF delivered THEN the_posts ELSE <<>>,
     webhook_success |-> delivered,
     total_posts |-> IF delivered THEN Len(the_posts) ELSE 0]

\* The dictionary returned when posts were generated.
ResultWithPosts(the_posts, delivered) ==
    [success |-> TRUE, posts |-> the_posts, webhook_success |-> delivered,
     total_posts |-> Len(the_posts)]

\* The dictionary returned when no post was generated.
ResultNoPosts ==
    [success |-> TRUE, posts |-> <<>>, webhook_success |-> FALSE, total_posts |-> 0]

\* The dictionary returned by the except branch.
ResultError ==
    [success |-> FALSE, posts |-> <<>>, webhook_success |-> FALSE, total_posts |-> 0,
     error |-> "BigQuery client initialization failed"]

\* ------------------------------------------------------------ input sets
Sep == <<",", " ">>
SelectKw == <<"S","E","L","E","C","T"," ">>

RECURSIVE Join(_)
Join(parts) == IF Len(parts) = 0 THEN <<>> ELSE parts[1] \o Join(Tail(parts))

Upper(s) ==
    [i \in 1..Len(s) |->
        IF \E k \in 1..26 : LowerCase[k] = s[i]
        THEN UpperCase[CHOOSE k \in 1..26 : LowerCase[k] = s[i]] ELSE s[i]]

\* A custom query naming the seven columns, and the same without kilometrage.
QueryFirstSix ==
    SelectKw \o Join([i \in 1..6 |-> required_columns[i] \o Sep])
QueryAllColumns == QueryFirstSix \o required_columns[7]

\* The values st.session_state may hold under 'custom_query': nothing, the
\* emptied text area, and query texts.
SessionQueries ==
    {NoneVal, Some(<<>>), Some(QueryAllColumns), Some(QueryFirstSix)}

RawRow(name, id, make, model, year, km) ==
    [sf_vehicle_name |-> name, ajans_vehicle_id |-> id, car_make |-> make,
     car_model |-> model, car_year |-> year, kilometrage |-> km,
     published_at |-> "2025-01-01"]

\* Rows the warehouse may return (numbers in tenths).
RawRows ==
    {RawRow(Some("ABC123"), Some("v1"), Some("Toyota"), Some("Corolla"),
            Some(20200), Some(500000)),
     RawRow(Some("XYZ789"), Some("v2"), Some("Honda"), Some("Civic"),
            Some(20195), NoneVal),
     RawRow(Some("NOMAKE"), Some("v3"), NoneVal, Some("Corolla"),
            Some(20200), Some(10000)),
     RawRow(Some("NOMODEL"), Some("v4"), Some("Toyota"), NoneVal,
            NoneVal, Some(10000)),
     RawRow(Some("EMPTYID"), Some(""), Some("Kia"), Some("Rio"),
            Some(20180), Some(12345678)),
     RawRow(Some("NULLID"), NoneVal, Some("Kia"), Some("Rio"),
            Some(20180), Some(0)),
     RawRow(NoneVal, Some("v7"), Some("Fiat"), Some("Tipo"),
            Some(20210), Some(-15)),
     RawRow(Some("NAID"), NAVal, Some("Seat"), Some("Ibiza"),
            Some(20170), Some(990000))}

SeqsUpTo(S, n) == UNION {[1..k -> S] : k \in 0..n}

\* What executing the query gives: rows, or an exception (the job fails, a
\* required column is not in the result, a value is no number).
WarehouseOutcomes ==
    {[kind |-> "rows", rows |-> r] : r \in SeqsUpTo(RawRows, MaxRows)}
    \cup {[kind |-> "error"]}

LinkA == "https://t.co/1"
LinkB == "https://t.co/2"

Mapping(d) == [kind |-> "mapping", data |-> d]
Response(status, body) == [kind |-> "response", status |-> status, body |-> body]

\* Answers of the link service used in whole runs.
LinkOutcomes ==
    {Response(200, Mapping("tracking_link" :> Some(LinkA))),
     Response(200, Mapping("link" :> Some(LinkB))),
     Response(200, Mapping(("tracking_link" :> Some("")) @@ ("url" :> Some(LinkB)))),
     Response(200, Mapping("message" :> Some("ok"))),
     Response(500, Mapping("tracking_link" :> Some(LinkA))),
     [kind |-> "timeout"]}

\* Answers of the webhook endpoint.
WebhookOutcomes ==
    {Response(st, [kind |-> "text"]) : st \in {200, 201, 202, 204, 500}}
    \cup {[kind |-> "timeout"], [kind |-> "request_exception"]}

\* ------------------------------------------------------------------ state
VARIABLES
    pc,               \* position in run_flash_sale_generation
    custom_query,     \* st.session_state['custom_query']
    client,           \* whether the BigQuery client exists
    validations,      \* results of validate_query_columns, in call order
    executed,         \* queries handed to client.query, in order
    cars,             \* flash_sale_cars
    idx,              \* position of the loop over flash_sale_cars
    posts,            \* posts
    successful_posts,
    failed_posts,
    summary,          \* the counts emitted after the loop (none before)
    link_requests,    \* requests made to the link service, in order
    handled,          \* the records the loop has dealt with and how, in order
    webhook_posts,    \* POSTs made to the webhook, in order
    result,           \* the dictionary returned to the caller (none before)
    clock,            \* datetime.now()
    arg,              \* argument of a direct call of one function
    ret               \* value returned by that call (none before)

vars == <<pc, custom_query, client, validations, executed, cars, idx, posts,
          successful_posts, failed_posts, summary, link_requests, handled,
          webhook_posts, result, clock, arg, ret>>

Blank ==
    /\ validations = <<>>
    /\ executed = <<>>
    /\ cars = <<>>
    /\ idx = 0
    /\ posts = <<>>
    /\ successful_posts = 0
    /\ failed_posts = 0
    /\ summary = NoneVal
    /\ link_requests = <<>>
    /\ handled = <<>>
    /\ webhook_posts = <<>>
    /\ result = NoneVal
    /\ clock = 0
    /\ ret = NoneVal

\* The button was pressed: run_flash_sale_generation is entered.
Init ==
    /\ pc = "start"
    /\ custom_query \in SessionQueries
    /\ client = FALSE
    /\ arg = NoneVal
    /\ Blank

\* ---------------------------------------------------------------- actions
\* The built-in query (its select list).
DefaultQuery ==
    SelectKw \o <<"D","I","S","T","I","N","C","T"," ">>
    \o Join([i \in 1..6 |-> required_columns[i] \o Sep]) \o required_columns[7]

\* `if custom_query:` -- a query was given and is not the empty text
QueryGiven(q) == q # NoneVal /\ Len(q[1]) > 0

\* Mutant: the constructor returns a generator that has no client.
InitRaises_Never(created) == FALSE

\* __init__: `if not self.client: raise Exception(...)`
InitRaises(created) == ~created

\* FlashSalePostGenerator(): _get_bigquery_client gives a client or None
\* (no credentials, or bigquery.Client raising); without a client the
\* constructor raises and the except branch of the run returns the error
\* result.
Construct ==
    /\ pc = "start"
    /\ clock' = clock + 1
    /\ \E created \in BOOLEAN :
         /\ client' = created
         /\ IF InitRaises(created)
            THEN /\ pc' = "done"
                 /\ result' = Some(ResultError)
            ELSE /\ pc' = "validate"
                 /\ result' = result
    /\ UNCHANGED <<custom_query, validations, executed, cars, idx, posts,
                   successful_posts, failed_posts, summary, link_requests, handled,
                   webhook_posts, arg, ret>>

\* Mutant: the custom query is used without looking at its columns.
QueryRejected_Never(q) == FALSE

\* Whether get_flash_sale_cars returns [] before executing anything.
QueryRejected(q) == QueryGiven(q) /\ ~validate_query_columns(q[1]).is_valid

\* The query get_flash_sale_cars goes on to execute.
ChosenQuery(q) ==
    IF QueryGiven(q) THEN [kind |-> "custom", query |-> q[1]]
    ELSE [kind |-> "default", query |-> DefaultQuery]

\* get_flash_sale_cars up to the choice of the query: without a client it
\* returns [] at once; a custom query is validated; a rejected one ends
\* generate_posts and the run with no posts.
CheckQuery ==
    /\ pc = "validate"
    /\ clock' = clock + 1
    /\ validations' = IF client /\ QueryGiven(custom_query)
                      THEN Append(validations, validate_query_columns(custom_query[1]))
                      ELSE validations
    /\ IF ~client \/ QueryRejected(custom_query)
       THEN /\ pc' = "done"
            /\ result' = Some(ResultNoPosts)
       ELSE /\ pc' = "query"
            /\ result' = result
    /\ UNCHANGED <<custom_query, client, executed, cars, idx, posts,
                   successful_posts, failed_posts, summary, link_requests, handled,
                   webhook_posts, arg, ret>>

\* client.query(query).to_dataframe() and the normalisation of its rows; no
\* row, or an exception, ends generate_posts and the run with no posts.
ExecuteQuery ==
    /\ pc = "query"
    /\ clock' = clock + 1
    /\ executed' = Append(executed, ChosenQuery(custom_query))
    /\ \E w \in WarehouseOutcomes :
         LET fetched == IF w.kind = "rows" THEN NormalizeRows(w.rows) ELSE <<>>
         IN  /\ cars' = fetched
             /\ IF Len(fetched) = 0
                THEN /\ pc' = "done"
                     /\ idx' = idx
                     /\ result' = Some(ResultNoPosts)
                ELSE /\ pc' = "loop"
                     /\ idx' = 1
                     /\ result' = result
    /\ UNCHANGED <<custom_query, client, validations, posts, successful_posts,
                   failed_posts, summary, link_requests, handled, webhook_posts, arg, ret>>

\* Mutant: only the make is looked at.
SkipRecord_MakeOnly(car_data) == car_data.make = "Unknown"

\* The skip policy of one loop iteration.
SkipRecord(car_data) ==
    \/ car_data.make = "Unknown"
    \/ car_data.model = "Unknown"
    \/ ~Truthy(car_data.ajans_vehicle_id)

\* Whether examining the record raises inside the try: the make and model
\* tests pass and `not ajans_vehicle_id` has no truth value.
RecordRaises(car_data) ==
    /\ car_data.make # "Unknown"
    /\ car_data.model # "Unknown"
    /\ TruthRaises(car_data.ajans_vehicle_id)

\* Mutant: the exception of one record ends the loop.
LastIteration_StopOnError(i, n, raised) == raised \/ i >= n

\* Whether the iteration over record i of n is the last one: the except
\* branch ends with `continue`.
LastIteration(i, n, raised) == i >= n

\* One iteration of the loop of generate_posts: the record raises (except
\* branch), is skipped, or gets its link and its post; after the last one
\* the summary is emitted, generate_posts returns, and the run goes on to
\* the webhook or returns the result without posts.
ProcessRecord ==
    /\ pc = "loop"
    /\ idx \in 1..Len(cars)
    /\ clock' = clock + 1
    /\ LET car_data == cars[idx]
       IN  IF RecordRaises(car_data) \/ SkipRecord(car_data)
           THEN /\ failed_posts' = failed_posts + 1
                /\ handled' = Append(handled, [car |-> idx, as |-> "failure"])
                /\ UNCHANGED <<posts, successful_posts, link_requests>>
           ELSE \E outcome \in LinkOutcomes :
                  LET tracking_link == create_tracking_link(outcome)
                  IN  /\ link_requests' =
                           Append(link_requests,
                                  [car |-> idx,
                                   payload |-> LinkPayload(car_data.sf_vehicle_name,
                                                           car_data.ajans_vehicle_id),
                                   outcome |-> outcome,
                                   returned |-> tracking_link])
                      /\ posts' = Append(posts, PostData(car_data, tracking_link, clock))
                      /\ successful_posts' = successful_posts + 1
                      /\ failed_posts' = failed_posts
                      /\ handled' = Append(handled, [car |-> idx, as |-> "success"])
    /\ IF ~LastIteration(idx, Len(cars), RecordRaises(cars[idx]))
       THEN /\ idx' = idx + 1
            /\ UNCHANGED <<pc, summary, result>>
       ELSE /\ idx' = idx
            /\ summary' = Some([total |-> Len(cars), successful |-> successful_posts',
                                failed |-> failed_posts'])
            /\ IF Len(posts') > 0
               THEN /\ pc' = "webhook"
                    /\ result' = result
               ELSE /\ pc' = "done"
                    /\ result' = Some(ResultNoPosts)
    /\ UNCHANGED <<custom_query, client, validations, executed, cars,
                   webhook_posts, arg, ret>>

\* send_posts_to_webhook(posts) and the return of the result.
SendToWebhook ==
    /\ pc = "webhook"
    /\ clock' = clock + 1
    /\ \E outcome \in WebhookOutcomes :
         LET call == send_posts_to_webhook(posts, outcome, clock)
         IN  /\ webhook_posts' =
                  webhook_posts \o [i \in 1..Len(call.sent) |->
                                      [payload |-> call.sent[i], outcome |-> outcome]]
             /\ result' = Some(ResultWithPosts(posts, call.ret))
    /\ pc' = "done"
    /\ UNCHANGED <<custom_query, client, validations, executed, cars, idx, posts,
                   successful_posts, failed_posts, summary, link_requests, handled, arg, ret>>

Next == Construct \/ CheckQuery \/ ExecuteQuery \/ ProcessRecord \/ SendToWebhook

Spec == Init /\ [][Next]_vars

\* ----------------------------------------------- direct calls of one function
\* Each of the four functions below is also exercised on its own, on a
\* constructed generator: the state holds the argument, one action applies
\* the function and stores what it returns.

\* Texts a query under validation is joined from.
AllBut(k) ==
    SelectKw \o Join([i \in 1..7 |-> IF i = k THEN <<>> ELSE required_columns[i] \o Sep])

Fragments ==
    {AllBut(7), AllBut(4), required_columns[7], Upper(required_columns[7]),
     <<"K","i","l","o">>, <<"m","e","t","r","a","g","e">>,
     required_columns[4], <<"C","A","R","_">>, <<"M","a","k","e">>, Sep}

QueryTexts == {Join(f) : f \in SeqsUpTo(Fragments, MaxFrags)}

InitValidate ==
    /\ pc = "call_validate"
    /\ custom_query = NoneVal
    /\ client = TRUE
    /\ arg \in QueryTexts
    /\ Blank

\* validate_query_columns(query)
ValidateCall ==
    /\ pc = "call_validate"
    /\ pc' = "validate_returned"
    /\ ret' = Some(validate_query_columns(arg))
    /\ validations' = Append(validations, validate_query_columns(arg))
    /\ UNCHANGED <<custom_query, client, executed, cars, idx, posts,
                   successful_posts, failed_posts, summary, link_requests, handled,
                   webhook_posts, result, clock, arg>>

SpecValidate == InitValidate /\ [][ValidateCall]_vars

\* Every answer of the link service: a status with a body that is a mapping
\* over the three known keys (each absent, null, empty or a link), a mapping
\* with another key only, text that is no JSON, JSON that is no mapping; or
\* no answer at all.
LinkValues == {NoneVal, Some(""), Some(LinkA), Some(LinkB)}
LinkKeys == {"tracking_link", "link", "url"}
LinkBodies ==
    {Mapping(d) : d \in UNION {[K -> LinkValues] : K \in SUBSET LinkKeys}}
    \cup {Mapping("message" :> Some("ok")), [kind |-> "not_json"], [kind |-> "not_mapping"]}
AllLinkOutcomes ==
    {Response(st, b) : st \in {200, 201, 500}, b \in LinkBodies}
    \cup {[kind |-> "timeout"], [kind |-> "request_exception"]}

InitLink ==
    /\ pc = "call_link"
    /\ custom_query = NoneVal
    /\ client = TRUE
    /\ arg \in AllLinkOutcomes
    /\ Blank

\* create_tracking_link("ABC123", "v1") with the service answering arg
LinkCall ==
    /\ pc = "call_link"
    /\ pc' = "link_returned"
    /\ link_requests' =
         Append(link_requests,
                [car |-> 0, payload |-> LinkPayload(Some("ABC123"), Some("v1")),
                 outcome |-> arg, returned |-> create_tracking_link(arg)])
    /\ ret' = Some(create_tracking_link(arg))
    /\ UNCHANGED <<custom_query, client, validations, executed, cars, idx, posts,
                   successful_posts, failed_posts, summary, handled, webhook_posts,
                   result, clock, arg>>

SpecLink == InitLink /\ [][LinkCall]_vars

\* Every warehouse row: each column null or a value.
AllRawRows ==
    {RawRow(n, i, mk, md, y, km) :
        n \in {NoneVal, Some("ABC123")},
        i \in {NoneVal, Some(""), Some("v1"), NAVal},
        mk \in {NoneVal, Some("Toyota"), Some("Unknown")},
        md \in {NoneVal, Some("Corolla")},
        y \in {NoneVal, Some(20200), Some(20195)},
        km \in {NoneVal, Some(500000), Some(-15)}}

InitNormalize ==
    /\ pc = "call_normalize"
    /\ custom_query = NoneVal
    /\ client = TRUE
    /\ arg \in AllRawRows
    /\ Blank

\* The normalisation of a result of one row.
NormalizeCall ==
    /\ pc = "call_normalize"
    /\ pc' = "normalize_returned"
    /\ cars' = NormalizeRows(<<arg>>)
    /\ ret' = Some(cars'[1])
    /\ UNCHANGED <<custom_query, client, validations, executed, idx, posts,
                   successful_posts, failed_posts, summary, link_requests, handled,
                   webhook_posts, result, clock, arg>>

SpecNormalize == InitNormalize /\ [][NormalizeCall]_vars

\* Posts a batch handed to the dispatcher is made of.
SamplePosts ==
    {PostData(NormalizeRow(RawRow(Some("ABC123"), Some("v1"), Some("Toyota"),
                                  Some("Corolla"), Some(20200), Some(500000))),
              LinkA, 1),
     PostData(NormalizeRow(RawRow(Some("XYZ789"), Some("v2"), Some("Honda"),
                                  Some("Civic"), Some(20195), NoneVal)),
              FallbackLink, 2)}

InitDispatch ==
    /\ pc = "call_dispatch"
    /\ custom_query = NoneVal
    /\ client = TRUE
    /\ arg \in SeqsUpTo(SamplePosts, MaxRows)
    /\ Blank

\* send_posts_to_webhook(arg)
DispatchCall ==
    /\ pc = "call_dispatch"
    /\ pc' = "dispatch_returned"
    /\ clock' = clock + 1
    /\ \E outcome \in WebhookOutcomes :
         LET call == send_posts_to_webhook(arg, outcome, clock)
         IN  /\ webhook_posts' =
                  webhook_posts \o [i \in 1..Len(call.sent) |->
                                      [payload |-> call.sent[i], outcome |-> outcome]]
             /\ ret' = Some(call.ret)
    /\ UNCHANGED <<custom_query, client, validations, executed, cars, idx, posts,
                   successful_posts, failed_posts, summary, link_requests, handled,
                   result, arg>>

\* Whole runs together with direct calls of the dispatcher.
InitRunOrDispatch == Init \/ InitDispatch
NextRunOrDispatch == Next \/ DispatchCall
SpecDispatch == InitRunOrDispatch /\ [][NextRunOrDispatch]_vars

\* ------------------------------------------------------------------ claims
\* Number of records whose loop iteration has finished.
Processed == IF pc = "loop" THEN idx - 1 ELSE Len(cars)

\* A record the skip policy excludes, in the words of the specification.
Skippable(car) ==
    \/ car.make = "Unknown"
    \/ car.model = "Unknown"
    \/ car.ajans_vehicle_id \in {NoneVal, Some(""), NAVal}

PromisedFallback(o) ==
    \/ o.kind # "response"
    \/ o.status # 200
    \/ o.body.kind # "mapping"
    \/ DOMAIN o.body.data \cap LinkKeys = {}

Ok200Mapping(o) == o.kind = "response" /\ o.status = 200 /\ o.body.kind = "mapping"

\* C2 as stated: the fallback for every failed outcome, and X for a 200
\* answer holding tracking_link = X, for every string X.
C2_Original ==
    pc = "link_returned" =>
      /\ ret # NoneVal
      /\ PromisedFallback(arg) => ret = Some(FallbackLink)
      /\ ( /\ Ok200Mapping(arg)
           /\ "tracking_link" \in DOMAIN arg.body.data
           /\ arg.body.data["tracking_link"] # NoneVal )
         => ret = arg.body.data["tracking_link"]

\* C2, amended: create_tracking_link always returns a string and makes one
\* request; it returns the fallback for every failed outcome, and X for a 200
\* answer holding a non-empty tracking_link = X.
C2_FallbackOrTrackingLink ==
    pc = "link_returned" =>
      /\ ret # NoneVal
      /\ Len(link_requests) = 1
      /\ PromisedFallback(arg) => ret = Some(FallbackLink)
      /\ ( /\ Ok200Mapping(arg)
           /\ "tracking_link" \in DOMAIN arg.body.data
           /\ arg.body.data["tracking_link"] \notin {NoneVal, Some("")} )
         => ret = arg.body.data["tracking_link"]

\* A 500 answer that carries a tracking link was turned into the fallback.
C2_Witness ==
    /\ pc = "link_returned"
    /\ arg.kind = "response"
    /\ arg.status = 500
    /\ arg.body.kind = "mapping"
    /\ DictGet(arg.body.data, "tracking_link") = Some(LinkA)
    /\ ret = Some(FallbackLink)

\* The value under the first of the three keys that is present.
FirstPresent(d) ==
    IF "tracking_link" \in DOMAIN d THEN d["tracking_link"]
    ELSE IF "link" \in DOMAIN d THEN d["link"]
    ELSE d["url"]

\* C3 as stated: on a 200 answer the value under the first present key is
\* returned, whatever it is, and the fallback only when no key is present.
C3_Original ==
    (pc = "link_returned" /\ Ok200Mapping(arg)) =>
      IF DOMAIN arg.body.data \cap LinkKeys = {}
      THEN ret = Some(FallbackLink)
      ELSE ret = FirstPresent(arg.body.data)

HasLink(d, key) == key \in DOMAIN d /\ d[key] \notin {NoneVal, Some("")}

\* C3, amended: on a 200 answer the value returned is the first non-empty
\* value in the order tracking_link, link, url (a key holding null or the
\* empty string is passed over), and the fallback exactly when none of the
\* three keys holds a non-empty value.
C3_FirstNonEmptyWins ==
    (pc = "link_returned" /\ Ok200Mapping(arg)) =>
      LET d == arg.body.data
      IN  /\ HasLink(d, "tracking_link") => ret = d["tracking_link"]
          /\ (~HasLink(d, "tracking_link") /\ HasLink(d, "link")) => ret = d["link"]
          /\ (~HasLink(d, "tracking_link") /\ ~HasLink(d, "link") /\ HasLink(d, "url"))
               => ret = d["url"]
          /\ (\A key \in LinkKeys : ~HasLink(d, key)) => ret = Some(FallbackLink)

\* An empty tracking_link was passed over for the link key, which itself won
\* over url.
C3_Witness ==
    /\ pc = "link_returned"
    /\ Ok200Mapping(arg)
    /\ DOMAIN arg.body.data = LinkKeys
    /\ arg.body.data["tracking_link"] = Some("")
    /\ arg.body.data["link"] = Some(LinkA)
    /\ arg.body.data["url"] = Some(LinkB)
    /\ ret = Some(LinkA)

\* The endpoint answered the POST with 200, 201 or 202.
AnsweredOk(o) == o.kind = "response" /\ o.status \in {200, 201, 202}

\* Whether a POST was made and the endpoint accepted it.
Delivered == Len(webhook_posts) > 0 /\ AnsweredOk(webhook_posts[1].outcome)

\* C4: send_posts_to_webhook returns true exactly when the batch is not
\* empty and the endpoint answered the POST with 200, 201 or 202; in every
\* other case (empty batch, other status, timeout, exception) it returns
\* false.
C4_DispatchTrueIffAccepted ==
    /\ pc = "dispatch_returned" => ret = Some(Len(arg) > 0 /\ Delivered)
    /\ (pc = "done" /\ Len(posts) > 0) =>
         result[1].webhook_success = (Len(posts) > 0 /\ Delivered)

\* A non-empty batch answered with 202 was reported delivered.
C4_Witness ==
    /\ pc = "dispatch_returned"
    /\ Len(arg) > 0
    /\ Len(webhook_posts) = 1
    /\ webhook_posts[1].outcome.kind = "response"
    /\ webhook_posts[1].outcome.status = 202
    /\ ret = Some(TRUE)

\* C5: a call of send_posts_to_webhook makes no POST for an empty batch and
\* exactly one for a non-empty batch, whatever the answer; a whole run makes
\* at most one POST.
C5_AtMostOnePost ==
    /\ Len(webhook_posts) <= 1
    /\ pc = "dispatch_returned" =>
         Len(webhook_posts) = (IF Len(arg) = 0 THEN 0 ELSE 1)
    /\ pc = "done" =>
         Len(webhook_posts) = (IF Len(posts) = 0 THEN 0 ELSE 1)

\* A run whose single POST timed out, and was not repeated.
C5_Witness ==
    /\ pc = "done"
    /\ Len(webhook_posts) = 1
    /\ webhook_posts[1].outcome.kind = "timeout"
    /\ result[1].webhook_success = FALSE

MetaKeys == {<<"total_count">>, <<"generated_at">>, <<"source">>}

\* The batch a POST recorded in webhook_posts was made for.
SentBatch == IF pc = "dispatch_returned" THEN arg ELSE posts

\* C6: the payload POSTed for a batch of N posts is a flat mapping whose keys
\* are exactly the three metadata keys and post_1..post_N, with the total
\* count N and post_i the i-th post of the batch.
C6_FlatPayload ==
    \A w \in 1..Len(webhook_posts) :
      LET payload == webhook_posts[w].payload
          N == Len(SentBatch)
      IN  /\ N > 0
          /\ DOMAIN payload = MetaKeys \cup {<<"post_", i>> : i \in 1..N}
          /\ payload[<<"total_count">>] = N
          /\ payload[<<"source">>] = "flash_sale_posts_generator"
          /\ \A i \in 1..N : payload[<<"post_", i>>] = SentBatch[i]

\* A run that POSTed a batch of two different posts.
C6_Witness ==
    /\ pc = "done"
    /\ Len(webhook_posts) = 1
    /\ Len(posts) = 2
    /\ posts[1].car_id # posts[2].car_id

\* Two characters that are the same up to letter case.
CasePairs == {{UpperCase[k], LowerCase[k]} : k \in 1..26}

SameLetter(a, b) == a = b \/ {a, b} \in CasePairs

\* The column name occurs in the query as a substring, letter case ignored.
OccursIgnoringCase(column, query) ==
    \E i \in 0..(Len(query) - Len(column)) :
        \A j \in 1..Len(column) : SameLetter(query[i + j], column[j])

AbsentColumns(query) ==
    {required_columns[k] : k \in {n \in 1..7 : ~OccursIgnoringCase(required_columns[n], query)}}

\* C7: validate_query_columns returns as missing exactly the required column
\* names that do not occur in the query as a substring, letter case ignored
\* (each once), and is_valid is true exactly when none is missing.
C7_MissingExactlyAbsent ==
    pc = "validate_returned" =>
      LET missing == ret[1].missing_columns
      IN  /\ {missing[i] : i \in 1..Len(missing)} = AbsentColumns(arg)
          /\ Len(missing) = Cardinality(AbsentColumns(arg))
          /\ ret[1].is_valid = (AbsentColumns(arg) = {})

\* A query found valid although one of its column names is in upper case.
C7_Witness ==
    /\ pc = "validate_returned"
    /\ ret[1].is_valid
    /\ Contains(Upper(required_columns[7]), arg)
    /\ ~Contains(required_columns[7], arg)

\* C8 as stated: whenever a custom query is supplied (any value other than
\* none) it is validated before anything is executed, a custom query missing
\* a column leaves nothing executed, and the default query is executed only
\* when no custom query is supplied.
C8_Original ==
    /\ (custom_query # NoneVal /\ Len(executed) > 0) =>
         (Len(validations) > 0 /\ validations[1].is_valid)
    /\ (custom_query # NoneVal /\ AbsentColumns(custom_query[1]) # {}) =>
         (executed = <<>> /\ cars = <<>>)
    /\ \A e \in 1..Len(executed) :
         executed[e].kind = "default" => custom_query = NoneVal

NonEmptyQuery == custom_query # NoneVal /\ custom_query[1] # <<>>

\* C8, amended: whenever a non-empty custom query is supplied it is validated
\* before anything is executed; if it is missing a required column no query
\* is executed and the fetch yields no record; otherwise it is the query
\* executed.  The default query is executed only when the custom query is
\* missing or empty, and then without validation.  At most one query is
\* executed in a run.
C8_ValidatedBeforeExecuted ==
    /\ Len(executed) <= 1
    /\ (NonEmptyQuery /\ Len(executed) > 0) =>
         /\ Len(validations) = 1
         /\ validations[1].is_valid
         /\ executed[1] = [kind |-> "custom", query |-> custom_query[1]]
    /\ (NonEmptyQuery /\ AbsentColumns(custom_query[1]) # {}) =>
         /\ executed = <<>>
         /\ cars = <<>>
         /\ pc \in {"start", "validate", "done"}
         /\ pc = "done" => (~client \/ result = Some(ResultNoPosts))
    /\ \A e \in 1..Len(executed) :
         executed[e].kind = "default" =>
           /\ ~NonEmptyQuery
           /\ validations = <<>>
           /\ executed[e].query = DefaultQuery

\* A run with a custom query lacking a column ended with nothing executed.
C8_Witness ==
    /\ pc = "done"
    /\ client
    /\ NonEmptyQuery
    /\ Len(validations) = 1
    /\ ~validations[1].is_valid
    /\ executed = <<>>

\* n is the integer part of the number held in tenths.
IntegerPartOf(tenths, n) ==
    IF tenths >= 0 THEN 10 * n <= tenths /\ tenths < 10 * n + 10
    ELSE 10 * n >= tenths /\ tenths > 10 * n - 10

DefaultedFields(row, car) ==
    /\ car.make = (IF row.car_make = NoneVal THEN "Unknown" ELSE row.car_make[1])
    /\ car.model = (IF row.car_model = NoneVal THEN "Unknown" ELSE row.car_model[1])
    /\ IF row.car_year = NoneVal THEN car.year = 0
       ELSE IntegerPartOf(row.car_year[1], car.year)
    /\ IF row.kilometrage = NoneVal THEN car.kilometers = 0
       ELSE IntegerPartOf(row.kilometrage[1], car.kilometers)

\* C9 as stated: for any row the record has no null field: make, model,
\* year and mileage are the row's value or the default, and the vehicle name
\* and vehicle id are never null.
C9_Original ==
    pc = "normalize_returned" =>
      /\ DefaultedFields(arg, ret[1])
      /\ ret[1].sf_vehicle_name # NoneVal
      /\ ret[1].ajans_vehicle_id # NoneVal

\* C9, amended: for any row, make and model are the row's value or
\* "Unknown", year and mileage are the row's value truncated to an integer
\* or 0; the vehicle name and the vehicle id are the row's values unchanged,
\* so they are null exactly when the row's value is null.
C9_DefaultsAndVerbatimIds ==
    pc = "normalize_returned" =>
      /\ DefaultedFields(arg, ret[1])
      /\ ret[1].sf_vehicle_name = arg.sf_vehicle_name
      /\ ret[1].ajans_vehicle_id = arg.ajans_vehicle_id
      /\ ret[1].published_at = arg.published_at

\* The row whose defaulted columns and vehicle id are all null.
C9_Witness ==
    /\ pc = "normalize_returned"
    /\ arg.car_make = NoneVal
    /\ arg.car_model = NoneVal
    /\ arg.car_year = NoneVal
    /\ arg.kilometrage = NoneVal
    /\ arg.ajans_vehicle_id = NoneVal
    /\ ret[1].make = "Unknown"
    /\ ret[1].kilometers = 0

\* C10: a run in which the client was constructed returns success = true,
\* the posts generate_posts returned, their number, and the outcome of the
\* dispatch (false when nothing was dispatched); the posts are returned also
\* when delivery failed.
C10_ResultOfRun ==
    (pc = "done" /\ client) =>
      /\ result = Some([success |-> TRUE, posts |-> posts,
                        webhook_success |-> Delivered,
                        total_posts |-> Len(posts)])
      /\ Len(posts) = successful_posts
      /\ Len(posts) = 0 => ~Delivered

\* A run whose delivery failed and whose result still holds its posts.
C10_Witness ==
    /\ pc = "done"
    /\ client
    /\ Len(posts) > 0
    /\ Len(webhook_posts) = 1
    /\ ~AnsweredOk(webhook_posts[1].outcome)
    /\ result[1].posts = posts
    /\ result[1].webhook_success = FALSE

\* C11: when the warehouse client cannot be constructed the run is aborted
\* before any query is validated or executed, no tracking-link request and no
\* webhook POST is made, and the caller receives success = false with an
\* empty post list.
C11_AbortWithoutClient ==
    ~client =>
      /\ pc \in {"start", "done"}
      /\ executed = <<>>
      /\ validations = <<>>
      /\ cars = <<>>
      /\ link_requests = <<>>
      /\ webhook_posts = <<>>
      /\ pc = "done" =>
           /\ result # NoneVal
           /\ result[1].success = FALSE
           /\ result[1].posts = <<>>
           /\ result[1].total_posts = 0
           /\ result[1].webhook_success = FALSE

\* A run with a custom query that ended at the failed construction.
C11_Witness ==
    /\ pc = "done"
    /\ ~client
    /\ custom_query = Some(QueryAllColumns)
    /\ result = Some(ResultError)
    /\ executed = <<>>

\* The number of records the loop has classified as `class`.
Classified(class) == Cardinality({k \in 1..Len(handled) : handled[k].as = class})

\* C12: an exception raised while one record is processed does not end the
\* loop: the records are dealt with one by one in order, each exactly once
\* and as exactly one of success or failure, so that the counters add up to
\* the number of records dealt with, the success counter is the length of
\* the batch, and the summary is emitted only after the last record, with
\* successes + failures = number of fetched records.
C12_EveryRecordClassifiedOnce ==
    /\ Len(handled) = Processed
    /\ \A k \in 1..Len(handled) : handled[k].car = k
    /\ successful_posts = Classified("success")
    /\ failed_posts = Classified("failure")
    /\ successful_posts + failed_posts = Processed
    /\ successful_posts = Len(posts)
    /\ (pc \in {"webhook", "done"} /\ Len(cars) > 0) => summary # NoneVal
    /\ summary # NoneVal =>
         /\ Processed = Len(cars)
         /\ summary[1].total = Len(cars)
         /\ summary[1].successful = Len(posts)
         /\ summary[1].successful + summary[1].failed = Len(cars)

\* A finished run in which a record raised and the record after it got its
\* post.
C12_Witness ==
    /\ pc = "done"
    /\ summary # NoneVal
    /\ \E k \in 1..(Len(cars) - 1) :
         /\ RecordRaises(cars[k])
         /\ handled[k] = [car |-> k, as |-> "failure"]
         /\ handled[k + 1] = [car |-> k + 1, as |-> "success"]
    /\ successful_posts = 1
    /\ failed_posts = 1

\* The records classified as success, in the order the loop met them.
IsSuccess(h) == h.as = "success"
SuccessCars == SelectSeq(handled, IsSuccess)

\* The requests made to the link service for record c.
RequestsFor(c) == {r \in 1..Len(link_requests) : link_requests[r].car = c}

\* The links an answer of the link service carries.
LinksIn(o) ==
    IF Ok200Mapping(o)
    THEN {o.body.data[key][1] : key \in {k \in DOMAIN o.body.data \cap LinkKeys :
                                            HasLink(o.body.data, k)}}
    ELSE {}

PostFields ==
    {"car_id", "ajans_vehicle_id", "make", "model", "year", "kilometers",
     "tracking_link", "post_content", "generated_at"}

\* C13: at every point of the loop (and after it) the batch holds only
\* complete posts: the p-th post belongs to the p-th record that was
\* classified as success, these records are distinct, passed the skip policy
\* and keep the order of the fetched list; exactly one tracking-link request
\* was made for each, the post's tracking_link is what that request's call
\* returned (a link of the answer, or the fallback), and the rendered content
\* carries the same link.
C13_BatchHoldsCompletePosts ==
    /\ Len(posts) = Len(SuccessCars)
    /\ \A p, q \in 1..Len(SuccessCars) : p < q => SuccessCars[p].car < SuccessCars[q].car
    /\ \A p \in 1..Len(posts) :
         LET c == SuccessCars[p].car
             car == cars[c]
             post == posts[p]
         IN  /\ c \in 1..Processed
             /\ ~Skippable(car)
             /\ DOMAIN post = PostFields
             /\ post.car_id = car.sf_vehicle_name
             /\ post.ajans_vehicle_id = car.ajans_vehicle_id
             /\ post.make = car.make /\ post.model = car.model
             /\ post.year = car.year /\ post.kilometers = car.kilometers
             /\ Cardinality(RequestsFor(c)) = 1
             /\ \A r \in RequestsFor(c) :
                  /\ post.tracking_link = link_requests[r].returned
                  /\ post.tracking_link \in LinksIn(link_requests[r].outcome) \cup {FallbackLink}
                  /\ link_requests[r].payload.final_link[2] = car.ajans_vehicle_id[1]
             /\ post.tracking_link # ""
             /\ post.post_content.tracking_link = post.tracking_link
             /\ post.post_content.make = car.make
             /\ post.post_content.model = car.model
             /\ post.post_content.year = car.year

\* In the middle of the loop the batch holds the post of the first record,
\* with the link the service returned under the key link.
C13_Witness ==
    /\ pc = "loop"
    /\ idx = 2
    /\ Len(posts) = 1
    /\ posts[1].tracking_link = LinkB
    /\ posts[1].post_content.tracking_link = LinkB
    /\ link_requests[1].car = 1

====
